---- MODULE Spec2Model ----
(***************************************************************************)
(* Verification model of the divvunspell speller facade and of the HFST    *)
(* transducer alphabet.                                                    *)
(*                                                                         *)
(* Strings (SmolStr, &str) are sequences of one-character strings, so that *)
(* prefixes, characters and case mappings can be computed.  Symbol numbers *)
(* are 0-based as in the source; TLA+ sequences are 1-based, so symbol s   *)
(* of a key table kt is kt[s + 1].  Weights (f32) are fixed-point numbers  *)
(* in tenths: 15 stands for 1.5.                                           *)
(***************************************************************************)
EXTENDS Integers, Sequences, FiniteSets, TLC

\* ------------------------------------------------------------------------
\* Bounds of the model
\* ------------------------------------------------------------------------

\* longest raw key table of the mutator drawn in the alphabet specification
MaxMutatorKeys == 3

\* longest raw key table of the lexicon drawn in the alphabet specification
MaxLexiconKeys == 2

\* number of create_translator_from calls explored in the alphabet specification
MaxTranslatorCalls == 2

\* ------------------------------------------------------------------------
\* Program constants
\* ------------------------------------------------------------------------

\* SymbolNumber is u16: `self.key_table.len() as u16` keeps the low 16 bits
SymbolModulus == 65536

\* ------------------------------------------------------------------------
\* Generic helpers
\* ------------------------------------------------------------------------

None == [none |-> TRUE]

Some(v) == [some |-> v]

IsSome(o) == "some" \in DOMAIN o

\* Vec::len() as u16
AsSymbolNumber(n) == n % SymbolModulus

\* HashMap::insert: the new value replaces an older one under the same key
MapInsert(m, k, v) == [x \in (DOMAIN m) \cup {k} |-> IF x = k THEN v ELSE m[x]]

EmptyMap == [x \in {} |-> 0]

\* ------------------------------------------------------------------------
\* Alphabet keys
\* ------------------------------------------------------------------------

EPSILON_KEY == <<"@","_","E","P","S","I","L","O","N","_","S","Y","M","B","O","L","_","@">>

IDENTITY_KEY == <<"@","_","I","D","E","N","T","I","T","Y","_","S","Y","M","B","O","L","_","@">>

UNKNOWN_KEY == <<"@","_","U","N","K","N","O","W","N","_","S","Y","M","B","O","L","_","@">>

\* str::split('.') : the pieces between the dots, in order
RECURSIVE SplitDots(_, _)
SplitDots(s, cur) ==
    IF s = <<>> THEN <<cur>>
    ELSE IF Head(s) = "." THEN <<cur>> \o SplitDots(Tail(s), <<>>)
    ELSE SplitDots(Tail(s), Append(cur, Head(s)))

\* .chars().filter(|x| x != &'@').collect()
RECURSIVE WithoutAt(_)
WithoutAt(s) ==
    IF s = <<>> THEN <<>>
    ELSE IF Head(s) = "@" THEN WithoutAt(Tail(s))
    ELSE <<Head(s)>> \o WithoutAt(Tail(s))

\* TransducerAlphabetParser::new
NewParser ==
    [key_table |-> <<>>,
     flag_state_size |-> 0,
     string_to_symbol |-> EmptyMap,
     operations |-> EmptyMap,
     feature_bucket |-> EmptyMap,
     value_bucket |-> EmptyMap,
     val_n |-> 0,
     feat_n |-> 0,
     identity_symbol |-> None,
     unknown_symbol |-> None]

\* TransducerAlphabetParser::handle_special_symbol for symbol i and key
handle_special_symbol(p, i, key) ==
    LET chunks == SplitDots(key, <<>>)
        fdo == SubSeq(chunks[1], 2, Len(chunks[1]))
        feature == IF Len(chunks) >= 2 THEN WithoutAt(chunks[2]) ELSE <<>>
        value == IF Len(chunks) >= 3 THEN WithoutAt(chunks[3]) ELSE <<>>
        newFeat == feature \notin DOMAIN p.feature_bucket
        fb == IF newFeat THEN MapInsert(p.feature_bucket, feature, p.feat_n)
              ELSE p.feature_bucket
        newVal == value \notin DOMAIN p.value_bucket
        vb == IF newVal THEN MapInsert(p.value_bucket, value, p.val_n)
              ELSE p.value_bucket
        op == [operation |-> fdo, feature |-> fb[feature], value |-> vb[value]]
    IN  [p EXCEPT !.feature_bucket = fb,
                  !.feat_n = IF newFeat THEN p.feat_n + 1 ELSE p.feat_n,
                  !.value_bucket = vb,
                  !.val_n = IF newVal THEN p.val_n + 1 ELSE p.val_n,
                  !.operations = MapInsert(p.operations, i, op),
                  !.key_table = Append(p.key_table, key)]

\* one iteration of the loop of parse_inner: the key of symbol i
ParseKey(p, i, key) ==
    IF Len(key) > 1 /\ key[1] = "@" /\ key[Len(key)] = "@"
    THEN IF key[3] = "."
         THEN handle_special_symbol(p, i, key)
         ELSE IF key = EPSILON_KEY
         THEN [p EXCEPT !.value_bucket = MapInsert(p.value_bucket, <<>>, p.val_n),
                        !.key_table = Append(p.key_table, <<>>),
                        !.val_n = p.val_n + 1]
         ELSE IF key = IDENTITY_KEY
         THEN [p EXCEPT !.identity_symbol = Some(i),
                        !.key_table = Append(p.key_table, key)]
         ELSE IF key = UNKNOWN_KEY
         THEN [p EXCEPT !.unknown_symbol = Some(i),
                        !.key_table = Append(p.key_table, key)]
         ELSE [p EXCEPT !.key_table = Append(p.key_table, <<>>)]
    ELSE [p EXCEPT !.key_table = Append(p.key_table, key),
                   !.string_to_symbol = MapInsert(p.string_to_symbol, key, i)]

\* TransducerAlphabetParser::parse_inner over the keys of the section
RECURSIVE ParseKeys(_, _, _)
ParseKeys(p, keys, i) ==
    IF i >= Len(keys)
    THEN [p EXCEPT !.flag_state_size = Cardinality(DOMAIN p.feature_bucket)]
    ELSE ParseKeys(ParseKey(p, i, keys[i + 1]), keys, i + 1)

\* TransducerAlphabetParser::parse : the alphabet of a key section
ParseAlphabet(keys) ==
    LET p == ParseKeys(NewParser, keys, 0)
    IN  [key_table |-> p.key_table,
         initial_symbol_count |-> Len(keys),
         flag_state_size |-> p.flag_state_size,
         string_to_symbol |-> p.string_to_symbol,
         operations |-> p.operations,
         identity_symbol |-> p.identity_symbol,
         unknown_symbol |-> p.unknown_symbol]

\* add_symbol that registers the string without storing its key
add_symbol_unpushed(alphabet, string) ==
    [alphabet EXCEPT
        !.string_to_symbol =
            MapInsert(alphabet.string_to_symbol, string,
                      AsSymbolNumber(Len(alphabet.key_table)))]

\* add_symbol that stores the key without registering the string
add_symbol_unregistered(alphabet, string) ==
    [alphabet EXCEPT !.key_table = Append(alphabet.key_table, string)]

\* TransducerAlphabet::add_symbol
add_symbol(alphabet, string) ==
    [alphabet EXCEPT
        !.string_to_symbol =
            MapInsert(alphabet.string_to_symbol, string,
                      AsSymbolNumber(Len(alphabet.key_table))),
        !.key_table = Append(alphabet.key_table, string)]

\* the loop of create_translator_from from mutator symbol s on; st holds the
\* translator built so far and the lexicon alphabet
RECURSIVE TranslatorLoop(_, _, _)
TranslatorLoop(st, from_keys, s) ==
    IF s >= Len(from_keys) THEN st
    ELSE LET from_sym == from_keys[s + 1]
         IN  IF from_sym \in DOMAIN st.alphabet.string_to_symbol
             THEN TranslatorLoop(
                    [st EXCEPT !.translator =
                        Append(st.translator, st.alphabet.string_to_symbol[from_sym])],
                    from_keys, s + 1)
             ELSE TranslatorLoop(
                    [translator |->
                        Append(st.translator, AsSymbolNumber(Len(st.alphabet.key_table))),
                     alphabet |-> add_symbol(st.alphabet, from_sym)],
                    from_keys, s + 1)

\* TransducerAlphabet::create_translator_from: the translator returned and
\* the lexicon alphabet as the call leaves it
create_translator_from(alphabet, from_alphabet) ==
    TranslatorLoop([translator |-> <<0>>, alphabet |-> alphabet],
                   from_alphabet.key_table, 1)

\* ------------------------------------------------------------------------
\* Characters and case handling (tokenizer::case_handling)
\* ------------------------------------------------------------------------

\* the cased letters of the model, as (lower-case, upper-case) pairs
CasePairs == {<<"a", "A">>, <<"b", "B">>, <<"c", "C">>, <<"r", "R">>, <<"t", "T">>}

\* characters without case
CaselessChars == {"1"}

Chars == {p[1] : p \in CasePairs} \cup {p[2] : p \in CasePairs} \cup CaselessChars

\* the code point of a character: the order of str comparison
CharCode(c) ==
    CASE c = "1" -> 49
      [] c = "A" -> 65 [] c = "B" -> 66 [] c = "C" -> 67 [] c = "R" -> 82 [] c = "T" -> 84
      [] c = "a" -> 97 [] c = "b" -> 98 [] c = "c" -> 99 [] c = "r" -> 114 [] c = "t" -> 116

upper_char(c) ==
    IF \E p \in CasePairs : p[1] = c THEN (CHOOSE p \in CasePairs : p[1] = c)[2] ELSE c

lower_char(c) ==
    IF \E p \in CasePairs : p[2] = c THEN (CHOOSE p \in CasePairs : p[2] = c)[1] ELSE c

upper_case(s) == [i \in 1..Len(s) |-> upper_char(s[i])]

lower_case(s) == [i \in 1..Len(s) |-> lower_char(s[i])]

upper_first(s) == [i \in 1..Len(s) |-> IF i = 1 THEN upper_char(s[i]) ELSE s[i]]

is_all_caps(word) == upper_case(word) = word

is_first_caps(word) == upper_first(word) = word

\* a list without its repeated entries, first occurrences kept in order
RECURSIVE Dedup(_)
Dedup(s) ==
    IF s = <<>> THEN <<>>
    ELSE LET front == Dedup(SubSeq(s, 1, Len(s) - 1))
             last == s[Len(s)]
         IN  IF \E i \in 1..Len(front) : front[i] = last THEN front
             ELSE Append(front, last)

\* the case variants of the input word
word_variants(key_table, word) ==
    IF word = lower_case(word) THEN <<word>>
    ELSE IF is_all_caps(word)
    THEN Dedup(<<word, lower_case(word), upper_first(lower_case(word))>>)
    ELSE IF is_first_caps(word) THEN <<word, lower_case(word)>>
    ELSE <<word>>

\* ------------------------------------------------------------------------
\* Suggestions and their order (speller::suggestion)
\* ------------------------------------------------------------------------

Suggestion(v, w) == [value |-> v, weight |-> w]

\* str order: lexicographic by code point, a proper prefix first
RECURSIVE ValueLess(_, _)
ValueLess(a, b) ==
    IF b = <<>> THEN FALSE
    ELSE IF a = <<>> THEN TRUE
    ELSE IF CharCode(Head(a)) # CharCode(Head(b)) THEN CharCode(Head(a)) < CharCode(Head(b))
    ELSE ValueLess(Tail(a), Tail(b))

\* Ord of Suggestion: weight ascending, then value ascending
SuggestionLess(x, y) ==
    \/ x.weight < y.weight
    \/ x.weight = y.weight /\ ValueLess(x.value, y.value)

\* x placed into the sorted list s, after the entries that are not greater
RECURSIVE InsertSorted(_, _)
InsertSorted(s, x) ==
    IF s = <<>> THEN <<x>>
    ELSE IF SuggestionLess(x, Head(s)) THEN <<x>> \o s
    ELSE <<Head(s)>> \o InsertSorted(Tail(s), x)

\* Vec::sort (stable)
RECURSIVE Sort(_)
Sort(s) ==
    IF s = <<>> THEN <<>>
    ELSE InsertSorted(Sort(SubSeq(s, 1, Len(s) - 1)), s[Len(s)])

\* Vec::truncate
Truncate(s, n) == IF Len(s) > n THEN SubSeq(s, 1, n) ELSE s

\* the enumerations of a finite set: the orders a HashMap may iterate in
Orders(S) ==
    {o \in [1..Cardinality(S) -> S] : \A i, j \in 1..Cardinality(S) : o[i] = o[j] => i = j}

\* ------------------------------------------------------------------------
\* Configuration
\* ------------------------------------------------------------------------

\* SpellerConfig::default
DefaultConfig ==
    [n_best |-> None,
     max_weight |-> None,
     beam |-> None,
     case_handling |-> TRUE,
     pool_start |-> 128,
     pool_max |-> 128,
     seen_node_sample_rate |-> 20]

\* ------------------------------------------------------------------------
\* Search worker (speller::worker), over the lexicon's words and an error
\* model of at most one edit
\* ------------------------------------------------------------------------

\* weight of one edit of the error model
EditCost == 10

\* the keys of the mutator alphabet the input symbols stand for
InputKeys(mut, input) == [i \in 1..Len(input) |-> mut.alphabet.key_table[input[i] + 1]]

\* the input spells the word v, character by character
Matches(keys, v) ==
    /\ Len(keys) = Len(v)
    /\ \A i \in 1..Len(v) : keys[i] = <<v[i]>>

\* s without its i-th entry
Without(s, i) == SubSeq(s, 1, i - 1) \o SubSeq(s, i + 1, Len(s))

\* number of edits (substitution, insertion, deletion) from the input to v:
\* 0, 1, or 2 for "more than one"
Edits(keys, v) ==
    IF Matches(keys, v) THEN 0
    ELSE IF \/ /\ Len(keys) = Len(v)
               /\ \E i \in 1..Len(v) : \A j \in (1..Len(v)) \ {i} : keys[j] = <<v[j]>>
            \/ /\ Len(keys) = Len(v) + 1
               /\ \E i \in 1..Len(keys) : Matches(Without(keys, i), v)
            \/ /\ Len(v) = Len(keys) + 1
               /\ \E i \in 1..Len(v) : Matches(keys, Without(v, i))
    THEN 1
    ELSE 2

\* a set of suggestions with distinct values as the list sorted by Ord
RECURSIVE SortedSeq(_)
SortedSeq(S) ==
    IF S = {} THEN <<>>
    ELSE LET m == CHOOSE x \in S : \A y \in S \ {x} : SuggestionLess(x, y)
         IN  <<m>> \o SortedSeq(S \ {m})

\* the least weight of a non-empty set of suggestions
BestWeight(S) == (CHOOSE x \in S : \A y \in S : x.weight <= y.weight).weight

\* SpellerWorker::is_correct: the input is a word of the lexicon
WorkerIsCorrect(mut, lex, input) ==
    /\ \A i \in 1..Len(input) : input[i] # 0
    /\ \E v \in DOMAIN lex.words : Matches(InputKeys(mut, input), v)

\* every final the search can reach, with its weight
WorkerFinals(mut, lex, input) ==
    IF \E i \in 1..Len(input) : input[i] = 0 THEN {}
    ELSE {Suggestion(v, lex.words[v] + EditCost * Edits(InputKeys(mut, input), v)) :
            v \in {x \in DOMAIN lex.words : Edits(InputKeys(mut, input), x) <= 1}}

\* SpellerWorker::suggest: the finals within max_weight and within beam of the
\* best one, sorted, the n_best first of them
WorkerSuggest(mut, lex, input, config) ==
    LET finals == WorkerFinals(mut, lex, input)
        capped == IF IsSome(config.max_weight)
                  THEN {x \in finals : x.weight <= config.max_weight.some}
                  ELSE finals
        inBeam == IF IsSome(config.beam) /\ capped # {}
                  THEN {x \in capped : x.weight <= BestWeight(capped) + config.beam.some}
                  ELSE capped
        sorted == SortedSeq(inBeam)
    IN  IF IsSome(config.n_best) THEN Truncate(sorted, config.n_best.some) ELSE sorted

\* ------------------------------------------------------------------------
\* Speller facade (speller/mod.rs)
\* ------------------------------------------------------------------------

\* to_input_vec with rposition: the last index of the key
to_input_vec_last_position(mut, word) ==
    LET key_table == mut.alphabet.key_table
        Position(s) ==
            IF \E x \in 1..Len(key_table) : key_table[x] = s
            THEN Some((CHOOSE x \in 1..Len(key_table) :
                         /\ key_table[x] = s
                         /\ \A y \in (x + 1)..Len(key_table) : key_table[y] # s) - 1)
            ELSE None
    IN  [i \in 1..Len(word) |->
            IF IsSome(Position(<<word[i]>>)) THEN AsSymbolNumber(Position(<<word[i]>>).some)
            ELSE IF IsSome(mut.alphabet.unknown_symbol) THEN mut.alphabet.unknown_symbol.some
            ELSE 0]

\* Speller::to_input_vec: one mutator symbol per character of the word
to_input_vec(mut, word) ==
    LET key_table == mut.alphabet.key_table
        Position(s) ==
            IF \E x \in 1..Len(key_table) : key_table[x] = s
            THEN Some((CHOOSE x \in 1..Len(key_table) :
                         /\ key_table[x] = s
                         /\ \A y \in 1..(x - 1) : key_table[y] # s) - 1)
            ELSE None
    IN  [i \in 1..Len(word) |->
            IF IsSome(Position(<<word[i]>>)) THEN AsSymbolNumber(Position(<<word[i]>>).some)
            ELSE IF IsSome(mut.alphabet.unknown_symbol) THEN mut.alphabet.unknown_symbol.some
            ELSE 0]

\* the loop of is_correct returning false at the first variant not accepted
IsCorrectIteration_first_only(mut, lex, words) ==
    IF words = <<>> THEN [pc |-> "done", verdict |-> FALSE, words |-> <<>>]
    ELSE [pc |-> "done",
          verdict |-> WorkerIsCorrect(mut, lex, to_input_vec(mut, Head(words))),
          words |-> <<>>]

\* one iteration of the loop of Speller::is_correct over the variants left in
\* words: the verdict if the call returns, the variants left if it goes on
IsCorrectIteration(mut, lex, words) ==
    IF words = <<>> THEN [pc |-> "done", verdict |-> FALSE, words |-> <<>>]
    ELSE IF WorkerIsCorrect(mut, lex, to_input_vec(mut, Head(words)))
    THEN [pc |-> "done", verdict |-> TRUE, words |-> <<>>]
    ELSE [pc |-> "is_correct", verdict |-> FALSE, words |-> Tail(words)]

\* the loop of Speller::is_correct run to its end
RECURSIVE IsCorrectLoop(_, _, _)
IsCorrectLoop(mut, lex, words) ==
    LET it == IsCorrectIteration(mut, lex, words)
    IN  IF it.pc = "done" THEN it.verdict ELSE IsCorrectLoop(mut, lex, it.words)

\* Speller::is_correct
is_correct(mut, lex, word) ==
    IsCorrectLoop(mut, lex, word_variants(lex.alphabet.key_table, word))

\* Speller::suggest_single
suggest_single(mut, lex, word, config) ==
    WorkerSuggest(mut, lex, to_input_vec(mut, word), config)

\* the body of `for sugg in r.into_iter()` of suggest_caps_merging, from the
\* i-th suggestion of r on
RECURSIVE MergeInto(_, _, _)
MergeInto(best, r, i) ==
    IF i > Len(r) THEN best
    ELSE LET sugg == r[i]
         IN  IF sugg.value \in DOMAIN best
             THEN IF best[sugg.value] > sugg.weight
                  THEN MergeInto([best EXCEPT ![sugg.value] = sugg.weight], r, i + 1)
                  ELSE MergeInto(best, r, i + 1)
             ELSE MergeInto(MapInsert(best, sugg.value, sugg.weight), r, i + 1)

\* the iteration with or_insert alone: the weight a value got first stays
MergeVariant_first_weight(best, mut, lex, ref_word, word, config) ==
    LET suggestions == WorkerSuggest(mut, lex, to_input_vec(mut, word), config)
        r == IF is_all_caps(ref_word)
             THEN [i \in 1..Len(suggestions) |->
                     [suggestions[i] EXCEPT !.value = upper_case(suggestions[i].value)]]
             ELSE IF is_first_caps(ref_word)
             THEN [i \in 1..Len(suggestions) |->
                     [suggestions[i] EXCEPT !.value = upper_first(suggestions[i].value)]]
             ELSE suggestions
        fresh(sugg) == sugg.value \notin DOMAIN best
    IN  IF suggestions # <<>> THEN MergeInto(best, SelectSeq(r, fresh), 1) ELSE best

\* one iteration of `for word in words.into_iter()` of suggest_caps_merging
MergeVariant(best, mut, lex, ref_word, word, config) ==
    LET suggestions == WorkerSuggest(mut, lex, to_input_vec(mut, word), config)
        r == IF is_all_caps(ref_word)
             THEN [i \in 1..Len(suggestions) |->
                     [suggestions[i] EXCEPT !.value = upper_case(suggestions[i].value)]]
             ELSE IF is_first_caps(ref_word)
             THEN [i \in 1..Len(suggestions) |->
                     [suggestions[i] EXCEPT !.value = upper_first(suggestions[i].value)]]
             ELSE suggestions
    IN  IF suggestions # <<>> THEN MergeInto(best, r, 1) ELSE best

\* the end of suggest_caps_merging without the truncation
MergeFinish_untruncated(best, order, config) ==
    Sort([i \in 1..Len(order) |-> Suggestion(order[i], best[order[i]])])

\* the end of suggest_caps_merging without the sort
MergeFinish_unsorted(best, order, config) ==
    LET out == [i \in 1..Len(order) |-> Suggestion(order[i], best[order[i]])]
    IN  IF IsSome(config.n_best) THEN Truncate(out, config.n_best.some) ELSE out

\* the end of suggest_caps_merging: the map as a list, in the order the map
\* iterates in, sorted and truncated
MergeFinish(best, order, config) ==
    LET out == Sort([i \in 1..Len(order) |-> Suggestion(order[i], best[order[i]])])
    IN  IF IsSome(config.n_best) THEN Truncate(out, config.n_best.some) ELSE out

\* the map `best` of suggest_caps_merging after the variants left in words
RECURSIVE MergeAll(_, _, _, _, _, _)
MergeAll(best, mut, lex, ref_word, words, config) ==
    IF words = <<>> THEN best
    ELSE MergeAll(MergeVariant(best, mut, lex, ref_word, Head(words), config),
                  mut, lex, ref_word, Tail(words), config)

\* Speller::suggest_caps_merging: the lists it can return, one for each order
\* the map can iterate in
suggest_caps_merging(mut, lex, ref_word, words, config) ==
    LET best == MergeAll(EmptyMap, mut, lex, ref_word, words, config)
    IN  {MergeFinish(best, order, config) : order \in Orders(DOMAIN best)}

\* the iteration asking is_first_caps before is_all_caps
CapsVariant_first_caps_first(mut, lex, ref_word, word, config) ==
    LET suggestions == WorkerSuggest(mut, lex, to_input_vec(mut, word), config)
    IN  IF suggestions # <<>>
        THEN IF is_first_caps(ref_word)
             THEN [i \in 1..Len(suggestions) |->
                     [suggestions[i] EXCEPT !.value = upper_first(suggestions[i].value)]]
             ELSE IF is_all_caps(ref_word)
             THEN [i \in 1..Len(suggestions) |->
                     [suggestions[i] EXCEPT !.value = upper_case(suggestions[i].value)]]
             ELSE suggestions
        ELSE <<>>

\* one iteration of the loop of suggest_caps: the list to return for a variant
\* whose search is not empty, the empty list for a variant to pass over
CapsVariant(mut, lex, ref_word, word, config) ==
    LET suggestions == WorkerSuggest(mut, lex, to_input_vec(mut, word), config)
    IN  IF suggestions # <<>>
        THEN IF is_all_caps(ref_word)
             THEN [i \in 1..Len(suggestions) |->
                     [suggestions[i] EXCEPT !.value = upper_case(suggestions[i].value)]]
             ELSE IF is_first_caps(ref_word)
             THEN [i \in 1..Len(suggestions) |->
                     [suggestions[i] EXCEPT !.value = upper_first(suggestions[i].value)]]
             ELSE suggestions
        ELSE <<>>

\* Speller::suggest_caps
RECURSIVE suggest_caps(_, _, _, _, _)
suggest_caps(mut, lex, ref_word, words, config) ==
    IF words = <<>> THEN <<>>
    ELSE IF CapsVariant(mut, lex, ref_word, Head(words), config) # <<>>
    THEN CapsVariant(mut, lex, ref_word, Head(words), config)
    ELSE suggest_caps(mut, lex, ref_word, Tail(words), config)

\* Speller::suggest_with_config: the lists it can return
suggest_with_config(mut, lex, word, config) ==
    IF config.case_handling
    THEN LET words == word_variants(lex.alphabet.key_table, word)
         IN  IF Len(words) = 2 \/ Len(words) = 3
             THEN suggest_caps_merging(mut, lex, word, words, config)
             ELSE {suggest_caps(mut, lex, word, words, config)}
    ELSE {suggest_single(mut, lex, word, config)}

\* Speller::suggest
suggest(mut, lex, word) == suggest_with_config(mut, lex, word, DefaultConfig)

\* ------------------------------------------------------------------------
\* State
\* ------------------------------------------------------------------------

VARIABLES
    mutator,              \* the error model: its alphabet
    lexicon,              \* the lexicon: its alphabet and its words with their weights
    alphabet_translator,  \* Speller::alphabet_translator, <<>> before construction
    built,                \* Speller::new has returned
    translations,         \* the translators create_translator_from has returned so far
    threads,              \* the calls in progress, one record for each caller
    mapped,               \* an alphabet section: its bytes and the header's symbol_count
    parsed,               \* what TransducerAlphabetParser::parse made of the section
    tables,               \* the index table and the transition table of a transducer
    answer,               \* the last query of the transducer and its outcomes
    encoded               \* the last word given to to_input_vec and its symbols

vars ==
    <<mutator, lexicon, alphabet_translator, built, translations, threads,
      mapped, parsed, tables, answer, encoded>>

\* the state of the loaders and of the transducer queries, which a speller
\* call never touches
loaded == <<mapped, parsed, tables, answer, encoded>>

\* a caller that is not inside a call
Idle ==
    [pc |-> "idle", op |-> "none", word |-> <<>>, config |-> DefaultConfig,
     variants |-> <<>>, words |-> <<>>, best |-> EmptyMap, order |-> <<>>,
     result |-> <<>>, verdict |-> FALSE]

\* ------------------------------------------------------------------------
\* Inputs of the model
\* ------------------------------------------------------------------------

\* most words a lexicon drawn from the pool holds
MaxLexiconWords == 2

\* largest n_best of the configurations drawn
MaxNBest == 2

\* number of parallel callers of the parallel specification
NumCallers == 2

FLAG_KEY == <<"@", "P", ".", "F", ".", "V", "@">>

UNHANDLED_KEY == <<"@", "X", "X", "@">>

\* the raw keys of the alphabet sections of the alphabet specification
RawKeys == {EPSILON_KEY, UNKNOWN_KEY, FLAG_KEY, UNHANDLED_KEY, <<"a">>, <<"b">>}

\* the sections of at most n raw keys
Sections(n) == UNION {[1..k -> RawKeys] : k \in 0..n}

\* the mutator sections of the speller specifications: one declares UNKNOWN,
\* the other has no symbol for a character outside its keys
SpellerMutatorSections ==
    {<<EPSILON_KEY, <<"a">>, <<"b">>, <<"c">>, <<"r">>, <<"t">>, <<"A">>, <<"B">>, UNKNOWN_KEY>>,
     <<EPSILON_KEY, <<"a">>, <<"b">>, <<"c">>, <<"r">>, <<"t">>, <<"A">>, <<"B">>, <<"1">>>>}

\* the lexicon sections of the speller specifications
SpellerLexiconSections ==
    {<<EPSILON_KEY, <<"a">>, <<"b">>, <<"c">>, <<"r">>, <<"t">>, <<"A">>, <<"B">>>>,
     <<EPSILON_KEY, <<"a">>, <<"b">>, <<"c">>, <<"r">>, <<"t">>, <<"A">>, <<"B">>, FLAG_KEY>>}

\* lexicon {cat: 0, car: 0, bat: 1.5}
ScenarioLexicon ==
    (<<"c", "a", "t">> :> 0) @@ (<<"c", "a", "r">> :> 0) @@ (<<"b", "a", "t">> :> 15)

LexiconPool == {<<"a">>, <<"A">>, <<"b">>, <<"B">>}

LexiconWeights == {0, 15}

\* the lexicons: every choice of at most MaxLexiconWords weighted words of the
\* pool, and the lexicon of the scenarios
Lexicons ==
    UNION {[D -> LexiconWeights] :
             D \in {S \in SUBSET LexiconPool : Cardinality(S) <= MaxLexiconWords}}
    \cup {ScenarioLexicon}

InputWords ==
    {<<"1">>, <<"a">>, <<"A">>, <<"C">>, <<"a", "B">>, <<"A", "b">>,
     <<"c", "a", "t">>, <<"c", "a", "T">>, <<"C", "a", "t">>, <<"C", "A", "T">>,
     <<"b", "a", "t">>}

\* a configuration whose pool_start is larger than its pool_max
PoolStartAbovePoolMax == [DefaultConfig EXCEPT !.pool_start = 256]

Configs ==
    {[DefaultConfig EXCEPT !.n_best = n, !.max_weight = m, !.beam = b, !.case_handling = c] :
        n \in {None} \cup {Some(k) : k \in 0..MaxNBest},
        m \in {None, Some(10)},
        b \in {None, Some(5)},
        c \in BOOLEAN}
    \cup {PoolStartAbovePoolMax}

\* ------------------------------------------------------------------------
\* Construction
\* ------------------------------------------------------------------------

\* Speller::new: the fields of the speller it returns
Speller_new(mut, lex) ==
    LET made == create_translator_from(lex.alphabet, mut.alphabet)
    IN  [mutator |-> mut,
         lexicon |-> [lex EXCEPT !.alphabet = made.alphabet],
         alphabet_translator |-> made.translator]

New ==
    /\ ~built
    /\ LET speller == Speller_new(mutator, lexicon)
       IN  /\ mutator' = speller.mutator
           /\ lexicon' = speller.lexicon
           /\ alphabet_translator' = speller.alphabet_translator
           /\ translations' = Append(translations, speller.alphabet_translator)
    /\ built' = TRUE
    /\ UNCHANGED <<threads, loaded>>

\* create_translator_from called on the lexicon alphabet with the mutator
Translate ==
    /\ Len(translations) < MaxTranslatorCalls
    /\ LET made == create_translator_from(lexicon.alphabet, mutator.alphabet)
       IN  /\ lexicon' = [lexicon EXCEPT !.alphabet = made.alphabet]
           /\ alphabet_translator' = made.translator
           /\ translations' = Append(translations, made.translator)
    /\ UNCHANGED <<mutator, built, threads, loaded>>

\* ------------------------------------------------------------------------
\* Calls.  A caller t holds a clone of the Arc; the loops over the case
\* variants advance one iteration at a time, so that calls interleave.
\* ------------------------------------------------------------------------

\* Speller::is_correct is entered: the variants are computed
CallIsCorrect(t, W) ==
    /\ built
    /\ threads[t].pc = "idle"
    /\ \E word \in W :
         threads' = [threads EXCEPT ![t] =
            [Idle EXCEPT !.pc = "is_correct", !.op = "is_correct", !.word = word,
                         !.words = word_variants(lexicon.alphabet.key_table, word)]]
    /\ UNCHANGED <<mutator, lexicon, alphabet_translator, built, translations, loaded>>

\* one iteration of the loop of Speller::is_correct, or its end
IsCorrectStep(t) ==
    /\ threads[t].pc = "is_correct"
    /\ LET it == IsCorrectIteration(mutator, lexicon, threads[t].words)
       IN  threads' = [threads EXCEPT ![t].pc = it.pc,
                                      ![t].verdict = it.verdict,
                                      ![t].words = it.words]
    /\ UNCHANGED <<mutator, lexicon, alphabet_translator, built, translations, loaded>>

\* Speller::suggest_with_config is entered (Speller::suggest enters it with the
\* default configuration): the strategy is chosen; suggest_single returns at once
CallSuggest(t, W, C) ==
    /\ built
    /\ threads[t].pc = "idle"
    /\ \E word \in W, config \in C :
         LET words == word_variants(lexicon.alphabet.key_table, word)
             call == [Idle EXCEPT !.op = "suggest", !.word = word, !.config = config,
                                  !.variants = words]
         IN  threads' = [threads EXCEPT ![t] =
                IF config.case_handling
                THEN IF Len(words) = 2 \/ Len(words) = 3
                     THEN [call EXCEPT !.pc = "merging", !.words = words]
                     ELSE [call EXCEPT !.pc = "caps", !.words = words]
                ELSE [call EXCEPT !.pc = "done",
                                  !.result = suggest_single(mutator, lexicon, word, config)]]
    /\ UNCHANGED <<mutator, lexicon, alphabet_translator, built, translations, loaded>>

\* the loop of suggest_caps_merging on a map shared by the calls in progress
merge_step_shared(ths, t, mut, lex) ==
    LET merged == MergeVariant(ths[t].best, mut, lex, ths[t].word,
                               Head(ths[t].words), ths[t].config)
    IN  [u \in DOMAIN ths |->
            IF u = t THEN [ths[u] EXCEPT !.best = merged, !.words = Tail(ths[u].words)]
            ELSE IF ths[u].pc = "merging" THEN [ths[u] EXCEPT !.best = merged]
            ELSE ths[u]]

\* the callers after caller t ran one iteration of the loop of
\* suggest_caps_merging: `best` is a local of the call
merge_step(ths, t, mut, lex) ==
    [ths EXCEPT ![t].best = MergeVariant(ths[t].best, mut, lex, ths[t].word,
                                         Head(ths[t].words), ths[t].config),
                ![t].words = Tail(ths[t].words)]

\* one iteration of the loop of suggest_caps_merging
MergingStep(t) ==
    /\ threads[t].pc = "merging"
    /\ threads[t].words # <<>>
    /\ threads' = merge_step(threads, t, mutator, lexicon)
    /\ UNCHANGED <<mutator, lexicon, alphabet_translator, built, translations, loaded>>

\* the end of suggest_caps_merging: the map is drained in some order
MergingFinish(t) ==
    /\ threads[t].pc = "merging"
    /\ threads[t].words = <<>>
    /\ \E order \in Orders(DOMAIN threads[t].best) :
         threads' = [threads EXCEPT
            ![t].pc = "done",
            ![t].order = order,
            ![t].result = MergeFinish(threads[t].best, order, threads[t].config)]
    /\ UNCHANGED <<mutator, lexicon, alphabet_translator, built, translations, loaded>>

\* one iteration of the loop of suggest_caps, or its end
CapsStep(t) ==
    /\ threads[t].pc = "caps"
    /\ LET th == threads[t]
           r == CapsVariant(mutator, lexicon, th.word, Head(th.words), th.config)
       IN  threads' = [threads EXCEPT ![t] =
              IF th.words = <<>> THEN [th EXCEPT !.pc = "done", !.result = <<>>]
              ELSE IF r # <<>> THEN [th EXCEPT !.pc = "done", !.result = r]
              ELSE [th EXCEPT !.words = Tail(th.words)]]
    /\ UNCHANGED <<mutator, lexicon, alphabet_translator, built, translations, loaded>>

\* the caller takes the value returned
Return(t) ==
    /\ threads[t].pc = "done"
    /\ threads' = [threads EXCEPT ![t] = Idle]
    /\ UNCHANGED <<mutator, lexicon, alphabet_translator, built, translations, loaded>>

\* ------------------------------------------------------------------------
\* Specifications
\* ------------------------------------------------------------------------

\* no section, table or word is under examination
NothingLoaded ==
    /\ mapped = None
    /\ parsed = None
    /\ tables = None
    /\ answer = None
    /\ encoded = None

\* a speller about to be constructed from two loaded transducers
InitSpeller(callers, lexicons) ==
    /\ \E section \in SpellerMutatorSections :
         mutator = [alphabet |-> ParseAlphabet(section)]
    /\ \E section \in SpellerLexiconSections, words \in lexicons :
         lexicon = [alphabet |-> ParseAlphabet(section), words |-> words]
    /\ alphabet_translator = <<>>
    /\ built = FALSE
    /\ translations = <<>>
    /\ threads = [t \in callers |-> Idle]
    /\ NothingLoaded

\* one caller, every input word and configuration
Init == InitSpeller({1}, Lexicons)

Next ==
    \/ New
    \/ CallIsCorrect(1, InputWords)
    \/ IsCorrectStep(1)
    \/ CallSuggest(1, InputWords, Configs)
    \/ MergingStep(1)
    \/ MergingFinish(1)
    \/ CapsStep(1)
    \/ Return(1)

Spec == Init /\ [][Next]_vars

\* the inputs of the parallel callers
ParallelLexicons == {ScenarioLexicon, (<<"a">> :> 0) @@ (<<"b">> :> 0)}

ParallelWords == {<<"a">>, <<"A">>}

ParallelConfigs ==
    {DefaultConfig,
     [DefaultConfig EXCEPT !.max_weight = Some(5)],
     [DefaultConfig EXCEPT !.case_handling = FALSE]}

\* NumCallers callers on clones of one Arc<Speller>, their calls interleaved
InitParallel == InitSpeller(1..NumCallers, ParallelLexicons)

NextParallel ==
    \/ New
    \/ \E t \in 1..NumCallers :
         \/ CallIsCorrect(t, ParallelWords)
         \/ IsCorrectStep(t)
         \/ CallSuggest(t, ParallelWords, ParallelConfigs)
         \/ MergingStep(t)
         \/ MergingFinish(t)
         \/ CapsStep(t)
         \/ Return(t)

SpecParallel == InitParallel /\ [][NextParallel]_vars

\* two alphabets loaded from any two sections; the translator is built from
\* the mutator against the lexicon, repeatedly
InitAlphabet ==
    /\ \E section \in Sections(MaxMutatorKeys) :
         mutator = [alphabet |-> ParseAlphabet(section)]
    /\ \E section \in Sections(MaxLexiconKeys) :
         lexicon = [alphabet |-> ParseAlphabet(section), words |-> EmptyMap]
    /\ alphabet_translator = <<>>
    /\ built = FALSE
    /\ translations = <<>>
    /\ threads = [t \in {} |-> Idle]
    /\ NothingLoaded

NextAlphabet == Translate

SpecAlphabet == InitAlphabet /\ [][NextAlphabet]_vars

\* ------------------------------------------------------------------------
\* Properties of create_translator_from
\* ------------------------------------------------------------------------

\* C1: every translator create_translator_from returned starts with 0 and maps
\* each mutator symbol s >= 1 to an index below the length of the lexicon key
\* table whose key is the mutator's key of s.
C1_TranslatorMapsEverySymbol ==
    \A k \in 1..Len(translations) :
        LET translator == translations[k]
        IN  /\ translator[1] = 0
            /\ \A s \in 1..(Len(mutator.alphabet.key_table) - 1) :
                 /\ s + 1 <= Len(translator)
                 /\ translator[s + 1] < Len(lexicon.alphabet.key_table)
                 /\ lexicon.alphabet.key_table[translator[s + 1] + 1]
                        = mutator.alphabet.key_table[s + 1]

\* a translator with one symbol found in the reverse map and one appended
C1_Witness ==
    /\ Len(translations) >= 1
    /\ \E s \in 1..(Len(mutator.alphabet.key_table) - 1) :
         translations[1][s + 1] < lexicon.alphabet.initial_symbol_count
    /\ \E s \in 1..(Len(mutator.alphabet.key_table) - 1) :
         translations[1][s + 1] >= lexicon.alphabet.initial_symbol_count

\* C2: a call of create_translator_from never shortens the lexicon key table;
\* a call after the first returns the array the first returned and leaves the
\* key table and the reverse map of the lexicon as they were.
C2_TranslatorIdempotent ==
    [][Len(translations') = Len(translations) + 1 =>
        /\ Len(lexicon'.alphabet.key_table) >= Len(lexicon.alphabet.key_table)
        /\ Len(translations) >= 1 =>
            /\ translations'[Len(translations')] = translations[1]
            /\ lexicon'.alphabet.key_table = lexicon.alphabet.key_table
            /\ lexicon'.alphabet.string_to_symbol = lexicon.alphabet.string_to_symbol]_vars

\* two calls done, the first of which appended keys, for a mutator with a
\* repeated key and an empty or flag-diacritic key
C2_Witness ==
    /\ Len(translations) = 2
    /\ Len(lexicon.alphabet.key_table) > lexicon.alphabet.initial_symbol_count
    /\ \E s \in 1..(Len(mutator.alphabet.key_table) - 1) :
         mutator.alphabet.key_table[s + 1] \in {<<>>, FLAG_KEY}
    /\ \E s, u \in 1..(Len(mutator.alphabet.key_table) - 1) :
         s # u /\ mutator.alphabet.key_table[s + 1] = mutator.alphabet.key_table[u + 1]

\* ------------------------------------------------------------------------
\* Properties of the speller facade
\* ------------------------------------------------------------------------

\* the call of caller t has returned a list of suggestions
Suggested(t) == threads[t].pc = "done" /\ threads[t].op = "suggest"

\* the call of caller t has returned a verdict
Judged(t) == threads[t].pc = "done" /\ threads[t].op = "is_correct"

\* the call of caller t went through suggest_caps_merging
Merged(t) ==
    /\ threads[t].config.case_handling
    /\ Len(word_variants(lexicon.alphabet.key_table, threads[t].word)) \in {2, 3}

\* r is in the order of Ord and no two of its entries have the same value
SortedWithoutDuplicates(r) ==
    \A i, j \in 1..Len(r) :
        i < j => ~SuggestionLess(r[j], r[i]) /\ r[i].value # r[j].value

\* C3: the list suggest_with_config returns is sorted by (weight, value)
\* ascending and holds no value twice, on every path.
C3_ResultSortedWithoutDuplicates ==
    \A t \in DOMAIN threads : Suggested(t) => SortedWithoutDuplicates(threads[t].result)

\* C4: with n_best = Some(k), suggest_with_config returns at most k suggestions.
C4_AtMostNBest ==
    \A t \in DOMAIN threads :
        Suggested(t) /\ IsSome(threads[t].config.n_best)
            => Len(threads[t].result) <= threads[t].config.n_best.some

\* a merged result cut to n_best although the variants found more values
C4_Witness ==
    \E t \in DOMAIN threads :
        /\ Suggested(t)
        /\ Merged(t)
        /\ IsSome(threads[t].config.n_best)
        /\ Cardinality(DOMAIN threads[t].best) > threads[t].config.n_best.some
        /\ Len(threads[t].result) = threads[t].config.n_best.some
        /\ Len(threads[t].result) > 0

\* C5: every suggestion returned weighs at most max_weight, if set, and at
\* most beam more than the lightest suggestion returned, if beam is set.
C5_WithinMaxWeightAndBeam ==
    \A t \in DOMAIN threads :
        Suggested(t) =>
            \A i \in 1..Len(threads[t].result) :
                /\ IsSome(threads[t].config.max_weight)
                     => threads[t].result[i].weight <= threads[t].config.max_weight.some
                /\ IsSome(threads[t].config.beam)
                     => \A j \in 1..Len(threads[t].result) :
                          threads[t].result[i].weight
                              <= threads[t].result[j].weight + threads[t].config.beam.some

\* C6: the result with n_best = Some(k) is the first k entries of the result
\* of the same call with a larger n_best or with none.
C6_NBestTruncatesThePrefix ==
    \A t \in DOMAIN threads :
        Suggested(t) /\ IsSome(threads[t].config.n_best) =>
            LET k == threads[t].config.n_best.some
            IN  \A n \in {None} \cup {Some(j) : j \in (k + 1)..(MaxNBest + 1)} :
                  \A full \in suggest_with_config(mutator, lexicon, threads[t].word,
                                                  [threads[t].config EXCEPT !.n_best = n]) :
                      threads[t].result = Truncate(full, k)

\* C7: two calls of suggest_with_config with the same word and configuration
\* return the same list, whatever the orders their maps iterate in.
C7_SameCallSameResult ==
    \A t, u \in DOMAIN threads :
        /\ Suggested(t) /\ Suggested(u)
        /\ threads[t].word = threads[u].word
        /\ threads[t].config = threads[u].config
        => threads[t].result = threads[u].result

\* two equal calls that drained their maps in different orders
C7_Witness ==
    \E t, u \in DOMAIN threads :
        /\ Suggested(t) /\ Suggested(u)
        /\ threads[t].word = threads[u].word
        /\ threads[t].config = threads[u].config
        /\ threads[t].order # threads[u].order
        /\ Len(threads[t].result) >= 2

\* C8: is_correct returns true iff the worker accepts a case variant of the
\* word; if the worker accepts the lower-case word w, is_correct is true of w,
\* of w with its first character upper-cased and of w upper-cased.
C8_AnyVariantAccepted ==
    \A t \in DOMAIN threads :
        Judged(t) =>
            LET word == threads[t].word
                words == word_variants(lexicon.alphabet.key_table, word)
                w == lower_case(word)
            IN  /\ threads[t].verdict
                     = (\E i \in 1..Len(words) :
                          WorkerIsCorrect(mutator, lexicon, to_input_vec(mutator, words[i])))
                /\ ( /\ word \in {w, upper_first(w), upper_case(w)}
                     /\ WorkerIsCorrect(mutator, lexicon, to_input_vec(mutator, w)) )
                     => threads[t].verdict

\* an upper-cased word judged correct for its lower-case variant
C8_Witness ==
    \E t \in DOMAIN threads :
        /\ Judged(t)
        /\ threads[t].verdict
        /\ Len(threads[t].word) > 1
        /\ threads[t].word = upper_case(threads[t].word)
        /\ ~WorkerIsCorrect(mutator, lexicon, to_input_vec(mutator, threads[t].word))

\* C9: with the lexicon {cat: 0, car: 0, bat: 1.5} and case handling on,
\* is_correct("caT") is true and suggest("caT") holds ("cat", 0).
C9_MixedCaseScenario ==
    \A t \in DOMAIN threads :
        lexicon.words = ScenarioLexicon /\ threads[t].word = <<"c", "a", "T">> =>
            /\ Judged(t) => threads[t].verdict
            /\ Suggested(t) /\ threads[t].config = DefaultConfig
                 => \E i \in 1..Len(threads[t].result) :
                      threads[t].result[i] = Suggestion(<<"c", "a", "t">>, 0)

\* C10: once Speller::new has returned, no step of any call changes the
\* mutator, the lexicon or the translator; create_translator_from has run
\* once, at construction; and every call returns what it returns run alone.
C10_ImmutableAfterConstruction ==
    [][/\ built => UNCHANGED <<mutator, lexicon, alphabet_translator, translations>>
       /\ built' => /\ Len(translations') = 1
                    /\ alphabet_translator' = translations'[1]
       /\ \A t \in DOMAIN threads :
            /\ threads'[t].pc = "done" /\ threads'[t].op = "suggest"
                 => threads'[t].result \in suggest_with_config(mutator', lexicon',
                                              threads'[t].word, threads'[t].config)
            /\ threads'[t].pc = "done" /\ threads'[t].op = "is_correct"
                 => threads'[t].verdict = is_correct(mutator', lexicon', threads'[t].word)
      ]_vars

\* a call returned while another call is inside its merging loop, on a speller
\* whose construction appended keys to the lexicon
C10_Witness ==
    \E t, u \in DOMAIN threads :
        /\ Suggested(t)
        /\ threads[t].result # <<>>
        /\ threads[u].pc = "merging"
        /\ threads[u].best # EmptyMap
        /\ threads[u].words # <<>>
        /\ Len(lexicon.alphabet.key_table) > lexicon.alphabet.initial_symbol_count

\* ------------------------------------------------------------------------
\* Configurations the specification calls unsupported
\* ------------------------------------------------------------------------

\* the configurations the error kind UnsupportedConfig is for
UnsupportedConfig(config) ==
    \/ config.pool_start > config.pool_max
    \/ config.n_best = Some(0)

\* what suggest_with_config handed back to caller t: its return type is
\* Vec<Suggestion>, so the outcome is always a list
SuggestOutcome(t) == [list |-> threads[t].result]

\* C11: a suggestion request whose configuration has pool_start > pool_max or
\* n_best = Some(0) is answered with the error UnsupportedConfig, not run and
\* answered with an ordinary list.
C11_UnsupportedConfigReported ==
    \A t \in DOMAIN threads :
        Suggested(t) /\ UnsupportedConfig(threads[t].config)
            => SuggestOutcome(t) = [error |-> "UnsupportedConfig"]

\* ------------------------------------------------------------------------
\* Loading an alphabet section from mapped memory.  A byte is a one-character
\* string, the zero byte is NUL; offsets count from 0 as in the code.
\* ------------------------------------------------------------------------

NUL == "NUL"

\* the operators FlagDiacriticOperator::from_str knows
FlagDiacriticOperators == {<<"P">>, <<"N">>, <<"R">>, <<"D">>, <<"C">>, <<"U">>}

\* the thread panicked: an index out of bounds, or unwrap on nothing
Aborted(why) == [aborted |-> TRUE, why |-> why]

\* while buf[offset + end] != 0 { end += 1 } : the end found, or nothing when
\* the index leaves the buffer
RECURSIVE ScanKey(_, _, _)
ScanKey(buf, offset, end) ==
    IF offset + end >= Len(buf) THEN None
    ELSE IF buf[offset + end + 1] = NUL THEN Some(end)
    ELSE ScanKey(buf, offset, end + 1)

\* the unwraps on the way of a key: chars().nth(2).unwrap() in parse_inner and
\* from_str(..).unwrap() in handle_special_symbol
KeyAborts(key) ==
    /\ Len(key) > 1 /\ key[1] = "@" /\ key[Len(key)] = "@"
    /\ \/ Len(key) < 3
       \/ /\ key[3] = "."
          /\ LET first == SplitDots(key, <<>>)[1]
             IN  SubSeq(first, 2, Len(first)) \notin FlagDiacriticOperators

\* while buf[offset] == b'\0' { offset += 1 } : the offset of the first byte
\* after the padding, or nothing when the index leaves the buffer
RECURSIVE SkipPadding(_, _)
SkipPadding(buf, offset) ==
    IF offset >= Len(buf) THEN None
    ELSE IF buf[offset + 1] = NUL THEN SkipPadding(buf, offset + 1)
    ELSE Some(offset)

\* the loop of parse_inner from symbol i at offset, and what follows it
RECURSIVE ParseLoop(_, _, _, _, _)
ParseLoop(p, buf, symbols, i, offset) ==
    IF i >= symbols
    THEN LET after == SkipPadding(buf, offset)
         IN  IF ~IsSome(after) THEN Aborted("index out of bounds")
             ELSE [aborted |-> FALSE,
                   parser |-> [p EXCEPT !.flag_state_size =
                                             Cardinality(DOMAIN p.feature_bucket)],
                   length |-> after.some]
    ELSE LET end == ScanKey(buf, offset, 0)
         IN  IF ~IsSome(end) THEN Aborted("index out of bounds")
             ELSE LET key == SubSeq(buf, offset + 1, offset + end.some)
                  IN  IF KeyAborts(key) THEN Aborted("unwrap on None")
                      ELSE ParseLoop(ParseKey(p, i, key), buf, symbols, i + 1,
                                     offset + end.some + 1)

\* TransducerAlphabetParser::parse_inner on the bytes of a section
parse_inner(buf, symbols) == ParseLoop(NewParser, buf, symbols, 0, 0)

\* longest buffer drawn byte by byte
MaxBufferLen == 5

\* largest symbol_count of a header over such a buffer
MaxSymbols == 2

\* most keys of a section written out key by key
MaxSectionKeys == 3

Bytes == {NUL, "@", ".", "P", "a"}

\* every buffer of at most MaxBufferLen bytes under every symbol_count
RawMappings ==
    {[buf |-> b, symbols |-> n] :
        b \in UNION {[1..k -> Bytes] : k \in 0..MaxBufferLen},
        n \in 0..MaxSymbols}

FLAG_NO_VALUE_KEY == <<"@", "C", ".", "F", "@">>

OTHER_FLAG_KEY == <<"@", "P", ".", "G", ".", "W", "@">>

SectionKeys == {EPSILON_KEY, FLAG_KEY, FLAG_NO_VALUE_KEY, OTHER_FLAG_KEY, <<"a">>}

\* the bytes of a section: every key with its terminator, then the padding
RECURSIVE SectionBytes(_)
SectionBytes(keys) ==
    IF keys = <<>> THEN <<>>
    ELSE Head(keys) \o <<NUL>> \o SectionBytes(Tail(keys))

\* well-formed sections of at most MaxSectionKeys keys, followed by one byte of
\* padding and the first byte of the index table
WrittenMappings ==
    {[buf |-> SectionBytes(keys) \o <<NUL, "a">>, symbols |-> Len(keys)] :
        keys \in UNION {[1..k -> SectionKeys] : k \in 0..MaxSectionKeys}}

\* no speller is under construction
NoSpeller ==
    /\ mutator = None
    /\ lexicon = None
    /\ alphabet_translator = <<>>
    /\ built = FALSE
    /\ translations = <<>>
    /\ threads = <<>>

\* HfstTransducer::from_mapped_memory hands the bytes from alphabet_offset on
\* and header.symbol_count() to the parser
from_mapped_memory ==
    /\ parsed = None
    /\ parsed' = parse_inner(mapped.buf, mapped.symbols)
    /\ UNCHANGED <<mutator, lexicon, alphabet_translator, built, translations, threads,
                   mapped, tables, answer, encoded>>

InitParse ==
    /\ NoSpeller
    /\ mapped \in RawMappings \cup WrittenMappings
    /\ parsed = None
    /\ tables = None
    /\ answer = None
    /\ encoded = None

NextParse == from_mapped_memory

SpecParse == InitParse /\ [][NextParse]_vars

\* C12: parsing an alphabet section never aborts, whatever the bytes: a key
\* without terminator before the end of the buffer, padding that runs to the
\* end of the buffer and the key "@@" end in an error or a placeholder, not
\* in an index out of bounds or an unwrap on nothing.
C12_ParseNeverAborts ==
    parsed # None => ~parsed.aborted

\* the section was parsed to its end
Parsed == parsed # None /\ ~parsed.aborted

\* the ids a bucket hands out are 0..n-1, each to one string
Dense(bucket) ==
    /\ {bucket[k] : k \in DOMAIN bucket} = 0..(Cardinality(DOMAIN bucket) - 1)
    /\ \A k, l \in DOMAIN bucket : bucket[k] = bucket[l] => k = l

\* the ids of one field of the operations come in the order of first use
FirstSeenOrder(operations, field) ==
    \A i, j \in DOMAIN operations :
        i < j => \/ operations[i][field] <= operations[j][field]
                 \/ \E k \in DOMAIN operations :
                      k < i /\ operations[k][field] = operations[j][field]

\* C18: after parsing a key table the feature ids and the value ids are dense
\* and in first-seen order, the empty string has value id 0, flag_state_size
\* is the number of distinct features and the key table has symbol_count
\* entries, wherever the epsilon key stands.
C18_DenseIdsAndEpsilonValueZero ==
    Parsed =>
        LET p == parsed.parser
        IN  /\ Dense(p.feature_bucket)
            /\ Dense(p.value_bucket)
            /\ FirstSeenOrder(p.operations, "feature")
            /\ FirstSeenOrder(p.operations, "value")
            /\ \A i \in DOMAIN p.operations :
                  /\ p.operations[i].feature \in 0..(Cardinality(DOMAIN p.feature_bucket) - 1)
                  /\ p.operations[i].value \in 0..(Cardinality(DOMAIN p.value_bucket) - 1)
            /\ <<>> \in DOMAIN p.value_bucket => p.value_bucket[<<>>] = 0
            /\ p.flag_state_size = Cardinality(DOMAIN p.feature_bucket)
            /\ Len(p.key_table) = mapped.symbols

\* ------------------------------------------------------------------------
\* The tables of a transducer.  A TransitionTableIndex is a u32, kept as its
\* top bit (high) and its 31 low bits (low): its value is high * 2^31 + low.
\* A record keeps its 4-byte slot as the u32 it holds; a weight is read from
\* the same slot.  Rows count from 0.
\* ------------------------------------------------------------------------

\* largest value of the 31 low bits
MaxLow == 2147483647

\* the u32 with value n < 2^31
Row(n) == [high |-> 0, low |-> n]

\* the u32 with value TARGET_TABLE + n
TargetRow(n) == [high |-> 1, low |-> n]

\* 1 << 31
TARGET_TABLE == TargetRow(0)

\* u32::MAX
MaxIndex == TargetRow(MaxLow)

NO_SYMBOL == 65535

\* i >= TARGET_TABLE
OnTransitionSide(i) == i.high = 1

\* the call returned v
Returned(v) == [aborted |-> FALSE, value |-> v]

\* o, or what F makes of its value when the call went on
Then(o, F(_)) == IF o.aborted THEN o ELSE F(o.value)

\* a + n on u32, n < 2^31: a build with overflow checks panics, a build
\* without them wraps
Add32(build, a, n) ==
    IF a.low <= MaxLow - n THEN Returned([a EXCEPT !.low = a.low + n])
    ELSE IF a.high = 0 THEN Returned(TargetRow(a.low - (MaxLow - n) - 1))
    ELSE IF build = "debug" THEN Aborted("attempt to add with overflow")
    ELSE Returned(Row(a.low - (MaxLow - n) - 1))

\* a - TARGET_TABLE on u32, likewise
SubTargetTable(build, a) ==
    IF a.high = 1 THEN Returned(Row(a.low))
    ELSE IF build = "debug" THEN Aborted("attempt to subtract with overflow")
    ELSE Returned(TargetRow(a.low))

\* i < size : the bounds check of a table
InTable(table, i) == i.high = 0 /\ i.low < Len(table)

\* IndexTable::input_symbol
index_input_symbol(table, i) ==
    IF InTable(table, i) THEN Some(table[i.low + 1].input_symbol) ELSE None

\* IndexTable::target
index_target(table, i) ==
    IF InTable(table, i) THEN Some(table[i.low + 1].target) ELSE None

\* IndexTable::is_final
index_is_final(table, i) ==
    /\ InTable(table, i)
    /\ table[i.low + 1].input_symbol = NO_SYMBOL
    /\ table[i.low + 1].target = Row(1)

\* IndexTable::final_weight : the slot read as a weight
index_final_weight(table, i) ==
    IF InTable(table, i) THEN Some([bits |-> table[i.low + 1].target]) ELSE None

\* TransitionTable::input_symbol
transition_input_symbol(table, i) ==
    IF InTable(table, i) THEN Some(table[i.low + 1].input_symbol) ELSE None

\* TransitionTable::output_symbol
transition_output_symbol(table, i) ==
    IF InTable(table, i) THEN Some(table[i.low + 1].output_symbol) ELSE None

\* TransitionTable::target
transition_target(table, i) ==
    IF InTable(table, i) THEN Some(table[i.low + 1].target) ELSE None

\* TransitionTable::weight : the slot read as a weight
transition_weight(table, i) ==
    IF InTable(table, i) THEN Some([bits |-> table[i.low + 1].target]) ELSE None

\* TransitionTable::is_final
transition_is_final(table, i) ==
    /\ InTable(table, i)
    /\ table[i.low + 1].input_symbol = NO_SYMBOL
    /\ table[i.low + 1].output_symbol = NO_SYMBOL

\* TransitionTable::symbol_transition
symbol_transition(table, i) ==
    [target |-> transition_target(table, i),
     symbol |-> transition_output_symbol(table, i),
     weight |-> transition_weight(table, i)]

\* TransducerAlphabet::is_flag
is_flag(alphabet, symbol) == symbol \in DOMAIN alphabet.operations

\* ------------------------------------------------------------------------
\* impl Transducer for HfstTransducer.  tr holds index_table,
\* transition_table, alphabet and the build the queries run in.
\* ------------------------------------------------------------------------

Hfst_is_final(tr, i) ==
    IF OnTransitionSide(i)
    THEN Returned(transition_is_final(tr.transition_table, Row(i.low)))
    ELSE Returned(index_is_final(tr.index_table, i))

Hfst_final_weight(tr, i) ==
    IF OnTransitionSide(i)
    THEN Returned(transition_weight(tr.transition_table, Row(i.low)))
    ELSE Returned(index_final_weight(tr.index_table, i))

Hfst_has_transitions(tr, i, s) ==
    IF ~IsSome(s) THEN Returned(FALSE)
    ELSE IF OnTransitionSide(i)
    THEN Returned(transition_input_symbol(tr.transition_table, Row(i.low)) = Some(s.some))
    ELSE Then(Add32(tr.build, i, s.some),
              LAMBDA at : Returned(index_input_symbol(tr.index_table, at) = Some(s.some)))

Hfst_has_epsilons_or_flags(tr, i) ==
    IF OnTransitionSide(i)
    THEN LET sym == transition_input_symbol(tr.transition_table, Row(i.low))
         IN  Returned(IsSome(sym) /\ (sym.some = 0 \/ is_flag(tr.alphabet, sym.some)))
    ELSE Returned(index_input_symbol(tr.index_table, i) = Some(0))

\* take_epsilons with the dispatch of is_final
Hfst_take_epsilons_dispatched(tr, i) ==
    IF OnTransitionSide(i) /\ transition_input_symbol(tr.transition_table, Row(i.low)) = Some(0)
    THEN Returned(Some(symbol_transition(tr.transition_table, Row(i.low))))
    ELSE Returned(None)

Hfst_take_epsilons(tr, i) ==
    IF transition_input_symbol(tr.transition_table, i) = Some(0)
    THEN Returned(Some(symbol_transition(tr.transition_table, i)))
    ELSE Returned(None)

Hfst_take_epsilons_and_flags(tr, i) ==
    LET sym == transition_input_symbol(tr.transition_table, i)
    IN  IF IsSome(sym)
        THEN IF sym.some # 0 /\ ~is_flag(tr.alphabet, sym.some)
             THEN Returned(None)
             ELSE Returned(Some(symbol_transition(tr.transition_table, i)))
        ELSE Returned(None)

Hfst_take_non_epsilons(tr, i, symbol) ==
    LET input_sym == transition_input_symbol(tr.transition_table, i)
    IN  IF IsSome(input_sym)
        THEN IF input_sym.some # symbol
             THEN Returned(None)
             ELSE Returned(Some(symbol_transition(tr.transition_table, i)))
        ELSE Returned(None)

\* next reading the record has_transitions reads, at i + symbol
Hfst_next_same_record(tr, i, symbol) ==
    IF OnTransitionSide(i)
    THEN Then(SubTargetTable(tr.build, i),
              LAMBDA d : Then(Add32(tr.build, d, 1), LAMBDA r : Returned(Some(r))))
    ELSE Then(Add32(tr.build, i, symbol),
              LAMBDA at :
                  LET v == index_target(tr.index_table, at)
                  IN  IF IsSome(v)
                      THEN Then(SubTargetTable(tr.build, v.some),
                                LAMBDA r : Returned(Some(r)))
                      ELSE Returned(None))

Hfst_next(tr, i, symbol) ==
    IF OnTransitionSide(i)
    THEN Then(SubTargetTable(tr.build, i),
              LAMBDA d : Then(Add32(tr.build, d, 1), LAMBDA r : Returned(Some(r))))
    ELSE Then(Add32(tr.build, i, 1),
              LAMBDA j : Then(Add32(tr.build, j, symbol),
              LAMBDA at :
                  LET v == index_target(tr.index_table, at)
                  IN  IF IsSome(v)
                      THEN Then(SubTargetTable(tr.build, v.some),
                                LAMBDA r : Returned(Some(r)))
                      ELSE Returned(None)))

\* ------------------------------------------------------------------------
\* impl Transducer for ThfstTransducer.  tr holds index_tables,
\* indexes_per_chunk, transition_tables, transitions_per_chunk, alphabet and
\* the build.
\* ------------------------------------------------------------------------

\* x / per_chunk and x - per_chunk * (x / per_chunk).  With the top bit of x
\* set the page is 2^31 / per_chunk or more, past the end of any Vec of the
\* model: the page is left as "beyond" and the index as the remainder.
RelIndex(x, per_chunk) ==
    IF x.high = 0
    THEN [beyond |-> FALSE, page |-> x.low \div per_chunk,
          index |-> Row(x.low - per_chunk * (x.low \div per_chunk))]
    ELSE [beyond |-> TRUE, page |-> 0,
          index |-> Row((2 * (((MaxLow \div 2) + 1) % per_chunk) + (x.low % per_chunk)) % per_chunk)]

\* ThfstTransducer::transition_rel_index
transition_rel_index(tr, x) == RelIndex(x, tr.transitions_per_chunk)

\* ThfstTransducer::index_rel_index
index_rel_index(tr, x) == RelIndex(x, tr.indexes_per_chunk)

\* self.transition_tables[page], handed to F: indexing a Vec past its end panics
TransitionPage(tr, x, F(_, _)) ==
    LET at == transition_rel_index(tr, x)
    IN  IF ~at.beyond /\ at.page < Len(tr.transition_tables)
        THEN F(tr.transition_tables[at.page + 1], at.index)
        ELSE Aborted("index out of bounds")

\* self.index_tables[page], handed to F
IndexPage(tr, x, F(_, _)) ==
    LET at == index_rel_index(tr, x)
    IN  IF ~at.beyond /\ at.page < Len(tr.index_tables)
        THEN F(tr.index_tables[at.page + 1], at.index)
        ELSE Aborted("index out of bounds")

Thfst_is_final(tr, i) ==
    IF OnTransitionSide(i)
    THEN TransitionPage(tr, Row(i.low),
                        LAMBDA table, index : Returned(transition_is_final(table, index)))
    ELSE IndexPage(tr, i, LAMBDA table, index : Returned(index_is_final(table, index)))

Thfst_final_weight(tr, i) ==
    IF OnTransitionSide(i)
    THEN TransitionPage(tr, Row(i.low),
                        LAMBDA table, index : Returned(transition_weight(table, index)))
    ELSE IndexPage(tr, i, LAMBDA table, index : Returned(index_final_weight(table, index)))

Thfst_has_transitions(tr, i, s) ==
    IF ~IsSome(s) THEN Returned(FALSE)
    ELSE IF OnTransitionSide(i)
    THEN TransitionPage(tr, Row(i.low),
            LAMBDA table, index :
                Returned(transition_input_symbol(table, index) = Some(s.some)))
    ELSE Then(Add32(tr.build, i, s.some),
              LAMBDA x : IndexPage(tr, x,
                  LAMBDA table, index :
                      Returned(index_input_symbol(table, index) = Some(s.some))))

Thfst_has_epsilons_or_flags(tr, i) ==
    IF OnTransitionSide(i)
    THEN TransitionPage(tr, Row(i.low),
            LAMBDA table, index :
                LET sym == transition_input_symbol(table, index)
                IN  Returned(IsSome(sym) /\ (sym.some = 0 \/ is_flag(tr.alphabet, sym.some))))
    ELSE IndexPage(tr, i,
            LAMBDA table, index : Returned(index_input_symbol(table, index) = Some(0)))

Thfst_take_epsilons(tr, i) ==
    TransitionPage(tr, i,
        LAMBDA table, index :
            IF transition_input_symbol(table, index) = Some(0)
            THEN Returned(Some(symbol_transition(table, index)))
            ELSE Returned(None))

Thfst_take_epsilons_and_flags(tr, i) ==
    TransitionPage(tr, i,
        LAMBDA table, index :
            LET sym == transition_input_symbol(table, index)
            IN  IF IsSome(sym)
                THEN IF sym.some # 0 /\ ~is_flag(tr.alphabet, sym.some)
                     THEN Returned(None)
                     ELSE Returned(Some(symbol_transition(table, index)))
                ELSE Returned(None))

Thfst_take_non_epsilons(tr, i, symbol) ==
    TransitionPage(tr, i,
        LAMBDA table, index :
            LET input_sym == transition_input_symbol(table, index)
            IN  IF IsSome(input_sym)
                THEN IF input_sym.some # symbol
                     THEN Returned(None)
                     ELSE Returned(Some(symbol_transition(table, index)))
                ELSE Returned(None))

Thfst_next(tr, i, symbol) ==
    IF OnTransitionSide(i)
    THEN Then(SubTargetTable(tr.build, i),
              LAMBDA d : Then(Add32(tr.build, d, 1), LAMBDA r : Returned(Some(r))))
    ELSE Then(Add32(tr.build, i, 1),
              LAMBDA j : Then(Add32(tr.build, j, symbol),
              LAMBDA x : IndexPage(tr, x,
                  LAMBDA table, index :
                      LET v == index_target(table, index)
                      IN  IF IsSome(v)
                          THEN Then(SubTargetTable(tr.build, v.some),
                                    LAMBDA r : Returned(Some(r)))
                          ELSE Returned(None))))

\* ------------------------------------------------------------------------
\* One transducer, loaded once as HfstTransducer and once as ThfstTransducer,
\* and a query put to both
\* ------------------------------------------------------------------------

\* most records of an index table
MaxIndexRecords == 3

\* most records of a transition table
MaxTransitionRecords == 1

\* largest indexes_per_chunk and transitions_per_chunk
MaxPerChunk == 2

\* the alphabet of the transducer: symbol 1 is a letter, symbol 2 a flag
QueryAlphabet == ParseAlphabet(<<EPSILON_KEY, <<"a">>, FLAG_KEY>>)

\* an arc on epsilon, an arc on symbol 1, and a final record whose slot holds 1
IndexRecords ==
    {[input_symbol |-> 0, target |-> TargetRow(0)],
     [input_symbol |-> 1, target |-> TargetRow(1)],
     [input_symbol |-> NO_SYMBOL, target |-> Row(1)]}

\* arcs on epsilon, on symbol 1 and on the flag, and a final record
TransitionRecords ==
    {[input_symbol |-> 0, output_symbol |-> 1, target |-> TargetRow(1)],
     [input_symbol |-> 1, output_symbol |-> 1, target |-> Row(1)],
     [input_symbol |-> 2, output_symbol |-> 0, target |-> TargetRow(0)],
     [input_symbol |-> NO_SYMBOL, output_symbol |-> NO_SYMBOL, target |-> Row(5)]}

Builds == {"debug", "release"}

\* the states asked about: rows in and past both tables, and the largest u32
QueryIndices ==
    {Row(0), Row(1), Row(2), TargetRow(0), TargetRow(1), MaxIndex}

QuerySymbols == {0, 1}

\* the records cut into tables of per_chunk records, the last one shorter
RECURSIVE Chunks(_, _)
Chunks(records, per_chunk) ==
    IF records = <<>> THEN <<>>
    ELSE IF Len(records) <= per_chunk THEN <<records>>
    ELSE <<SubSeq(records, 1, per_chunk)>>
         \o Chunks(SubSeq(records, per_chunk + 1, Len(records)), per_chunk)

\* the HfstTransducer over the records
Hfst(tb) ==
    [index_table |-> tb.index,
     transition_table |-> tb.transitions,
     alphabet |-> tb.alphabet,
     build |-> tb.build]

\* the ThfstTransducer over the same records
Thfst(tb) ==
    [index_tables |-> Chunks(tb.index, tb.indexes_per_chunk),
     indexes_per_chunk |-> tb.indexes_per_chunk,
     transition_tables |-> Chunks(tb.transitions, tb.transitions_per_chunk),
     transitions_per_chunk |-> tb.transitions_per_chunk,
     alphabet |-> tb.alphabet,
     build |-> tb.build]

\* a query with state i and symbol s, answered by both transducers
Ask(query, i, s, flat, paged) ==
    /\ answer = None
    /\ answer' = [query |-> query, i |-> i, s |-> s, flat |-> flat, paged |-> paged]
    /\ UNCHANGED <<mutator, lexicon, alphabet_translator, built, translations, threads,
                   mapped, parsed, tables, encoded>>

IsFinal ==
    \E i \in QueryIndices :
        Ask("is_final", i, None,
            Hfst_is_final(Hfst(tables), i), Thfst_is_final(Thfst(tables), i))

FinalWeight ==
    \E i \in QueryIndices :
        Ask("final_weight", i, None,
            Hfst_final_weight(Hfst(tables), i), Thfst_final_weight(Thfst(tables), i))

HasTransitions ==
    \E i \in QueryIndices, s \in {None} \cup {Some(sym) : sym \in QuerySymbols} :
        Ask("has_transitions", i, s,
            Hfst_has_transitions(Hfst(tables), i, s),
            Thfst_has_transitions(Thfst(tables), i, s))

HasEpsilonsOrFlags ==
    \E i \in QueryIndices :
        Ask("has_epsilons_or_flags", i, None,
            Hfst_has_epsilons_or_flags(Hfst(tables), i),
            Thfst_has_epsilons_or_flags(Thfst(tables), i))

TakeEpsilons ==
    \E i \in QueryIndices :
        Ask("take_epsilons", i, None,
            Hfst_take_epsilons(Hfst(tables), i), Thfst_take_epsilons(Thfst(tables), i))

TakeEpsilonsAndFlags ==
    \E i \in QueryIndices :
        Ask("take_epsilons_and_flags", i, None,
            Hfst_take_epsilons_and_flags(Hfst(tables), i),
            Thfst_take_epsilons_and_flags(Thfst(tables), i))

TakeNonEpsilons ==
    \E i \in QueryIndices, symbol \in QuerySymbols :
        Ask("take_non_epsilons", i, Some(symbol),
            Hfst_take_non_epsilons(Hfst(tables), i, symbol),
            Thfst_take_non_epsilons(Thfst(tables), i, symbol))

NextState ==
    \E i \in QueryIndices, symbol \in QuerySymbols :
        Ask("next", i, Some(symbol),
            Hfst_next(Hfst(tables), i, symbol), Thfst_next(Thfst(tables), i, symbol))

InitTransducer ==
    /\ NoSpeller
    /\ mapped = None
    /\ parsed = None
    /\ tables \in
         {[index |-> index, transitions |-> transitions,
           indexes_per_chunk |-> ipc, transitions_per_chunk |-> tpc,
           alphabet |-> QueryAlphabet, build |-> build] :
             index \in UNION {[1..k -> IndexRecords] : k \in 0..MaxIndexRecords},
             transitions \in UNION {[1..k -> TransitionRecords] : k \in 0..MaxTransitionRecords},
             ipc \in 1..MaxPerChunk,
             tpc \in 1..MaxPerChunk,
             build \in Builds}
    /\ answer = None
    /\ encoded = None

NextTransducer ==
    \/ IsFinal
    \/ FinalWeight
    \/ HasTransitions
    \/ HasEpsilonsOrFlags
    \/ TakeEpsilons
    \/ TakeEpsilonsAndFlags
    \/ TakeNonEpsilons
    \/ NextState

SpecTransducer == InitTransducer /\ [][NextTransducer]_vars

\* C13: over the same records the paged transducer and the flat one give the
\* same answer to every query at every state, also past the end of a table,
\* where the flat one answers none or false.
C13_PagedAnswersAsFlat ==
    answer # None => answer.paged = answer.flat

\* ------------------------------------------------------------------------
\* Which record a query of the HfstTransducer reads
\* ------------------------------------------------------------------------

\* the arc of row `row` of the transition table when `wanted` holds of its
\* input symbol, none otherwise
ArcIf(row, wanted(_)) ==
    LET sym == transition_input_symbol(tables.transitions, row)
    IN  IF IsSome(sym) /\ wanted(sym.some)
        THEN Some(symbol_transition(tables.transitions, row))
        ELSE None

\* the answer to is_final, final_weight, has_transitions and
\* has_epsilons_or_flags under the dispatch rule: the index table for a
\* state below TARGET_TABLE (has_transitions at i + sym), the transition
\* table at i - TARGET_TABLE otherwise
Dispatched(query, i, s) ==
    LET row == Row(i.low)
        input == transition_input_symbol(tables.transitions, row)
    IN  CASE query = "is_final" ->
               IF OnTransitionSide(i) THEN transition_is_final(tables.transitions, row)
               ELSE index_is_final(tables.index, i)
          [] query = "final_weight" ->
               IF OnTransitionSide(i) THEN transition_weight(tables.transitions, row)
               ELSE index_final_weight(tables.index, i)
          [] query = "has_transitions" ->
               IF ~IsSome(s) THEN FALSE
               ELSE IF OnTransitionSide(i) THEN input = s
               ELSE index_input_symbol(tables.index, Row(i.low + s.some)) = s
          [] query = "has_epsilons_or_flags" ->
               IF OnTransitionSide(i)
               THEN IsSome(input) /\ (input.some = 0 \/ is_flag(tables.alphabet, input.some))
               ELSE index_input_symbol(tables.index, i) = Some(0)

\* the arc take_epsilons, take_epsilons_and_flags or take_non_epsilons takes
\* from row `row` of the transition table
Taken(query, row, s) ==
    CASE query = "take_epsilons" -> ArcIf(row, LAMBDA sym : sym = 0)
      [] query = "take_epsilons_and_flags" ->
           ArcIf(row, LAMBDA sym : sym = 0 \/ is_flag(tables.alphabet, sym))
      [] query = "take_non_epsilons" -> ArcIf(row, LAMBDA sym : sym = s.some)

StateQueries == {"is_final", "final_weight", "has_transitions", "has_epsilons_or_flags"}

ArcQueries == {"take_epsilons", "take_epsilons_and_flags", "take_non_epsilons"}

\* C14 as it stands: every state query of the facade, the three take_ queries
\* included, applies the dispatch rule: a state at or above TARGET_TABLE is
\* looked up in the transition table at i - TARGET_TABLE.
C14_EveryQueryDispatches ==
    answer # None =>
        /\ answer.query \in StateQueries
              => answer.flat = Returned(Dispatched(answer.query, answer.i, answer.s))
        /\ answer.query \in ArcQueries /\ OnTransitionSide(answer.i)
              => answer.flat = Returned(Taken(answer.query, Row(answer.i.low), answer.s))

\* C14, amended: is_final, final_weight, has_transitions and
\* has_epsilons_or_flags apply the dispatch rule; take_epsilons,
\* take_epsilons_and_flags and take_non_epsilons read the transition table
\* at i itself, whichever side i is on.
C14_StateQueriesDispatchArcQueriesReadRowI ==
    answer # None =>
        /\ answer.query \in StateQueries
              => answer.flat = Returned(Dispatched(answer.query, answer.i, answer.s))
        /\ answer.query \in ArcQueries
              => answer.flat = Returned(Taken(answer.query, answer.i, answer.s))

\* take_epsilons asked at a state below TARGET_TABLE returned the arc of
\* that row of the transition table
C14_Witness ==
    /\ answer # None
    /\ answer.query = "take_epsilons"
    /\ ~OnTransitionSide(answer.i)
    /\ answer.flat = Returned(Some(symbol_transition(tables.transitions, answer.i)))

\* ------------------------------------------------------------------------
\* next
\* ------------------------------------------------------------------------

\* next was asked
NextAsked == answer # None /\ answer.query = "next"

\* the answer of next from the stored target v of an index record: the row
\* v - TARGET_TABLE, which exists when v is at or above TARGET_TABLE
RowOf(v) == IF IsSome(v) /\ OnTransitionSide(v.some) THEN Some(Row(v.some.low)) ELSE None

\* C19: next(i, sym) is i - TARGET_TABLE + 1 on the transition side; on the
\* index side it is index_table.target(i + 1 + sym) - TARGET_TABLE when that
\* record exists and none otherwise; no 32-bit computation on the way
\* overflows or underflows, so the result is a row below TARGET_TABLE, also
\* for a stored target smaller than TARGET_TABLE; the paged transducer
\* likewise inside its pages.
C19_NextNeverWraps ==
    NextAsked =>
        LET i == answer.i
            at == Row(i.low + 1 + answer.s.some)
            v == index_target(tables.index, at)
        IN  /\ ~answer.flat.aborted
            /\ IsSome(answer.flat.value) => ~OnTransitionSide(answer.flat.value.some)
            /\ OnTransitionSide(i) /\ i # MaxIndex
                  => answer.flat.value = Some(Row(i.low + 1))
            /\ ~OnTransitionSide(i) /\ ~IsSome(v) => answer.flat.value = None
            /\ ~OnTransitionSide(i) /\ IsSome(v)
                  => /\ IsSome(answer.flat.value)
                     /\ OnTransitionSide(v.some) => answer.flat.value = RowOf(v)
            /\ ~answer.paged.aborted => answer.paged = answer.flat

\* C20 as it stands: for a state i of the index side, has_transitions(i,
\* Some(sym)) and next(i, sym) read the same record: when has_transitions is
\* true, next(i, sym) is the target of the record whose input symbol was
\* matched, and the row it returns has an arc on sym.
C20_NextFollowsTheMatchedRecord ==
    NextAsked /\ ~OnTransitionSide(answer.i)
        /\ Hfst_has_transitions(Hfst(tables), answer.i, answer.s) = Returned(TRUE)
        => LET matched == Row(answer.i.low + answer.s.some)
           IN  /\ answer.flat = Returned(RowOf(index_target(tables.index, matched)))
               /\ transition_input_symbol(tables.transitions, answer.flat.value.some)
                      = answer.s

\* C20, amended: has_transitions(i, Some(sym)) reads the index record at
\* i + sym and next(i, sym) the one at i + 1 + sym.  When has_transitions(i + 1,
\* Some(sym)) is true, next(i, sym) is made from the target of the record
\* whose input symbol was matched: the target less TARGET_TABLE, which
\* wraps or aborts for a target below TARGET_TABLE.  Whether that row has an
\* arc on sym is up to the tables.
C20_NextFollowsTheRecordMatchedOneAbove ==
    NextAsked /\ ~OnTransitionSide(answer.i)
        /\ Hfst_has_transitions(Hfst(tables), Row(answer.i.low + 1), answer.s) = Returned(TRUE)
        => LET matched == Row(answer.i.low + 1 + answer.s.some)
               target == index_target(tables.index, matched).some
           IN  answer.flat = Then(SubTargetTable(tables.build, target),
                                  LAMBDA r : Returned(Some(r)))

\* has_transitions(i + 1, Some(1)) is true of an index table and next(i, 1)
\* returned the row its record points to
C20_Witness ==
    /\ NextAsked
    /\ ~OnTransitionSide(answer.i)
    /\ answer.s = Some(1)
    /\ Hfst_has_transitions(Hfst(tables), Row(answer.i.low + 1), answer.s) = Returned(TRUE)
    /\ answer.flat = Returned(Some(Row(1)))

\* ------------------------------------------------------------------------
\* The two case paths of suggest_with_config
\* ------------------------------------------------------------------------

\* a suggested value in the case of the word asked about
Recased(ref_word, value) ==
    IF is_all_caps(ref_word) THEN upper_case(value)
    ELSE IF is_first_caps(ref_word) THEN upper_first(value)
    ELSE value

\* what the search of one variant hands back
Searched(word, config) == WorkerSuggest(mutator, lexicon, to_input_vec(mutator, word), config)

\* the recased suggestions of all the variants of the word of caller t
Produced(t) ==
    LET th == threads[t]
        words == word_variants(lexicon.alphabet.key_table, th.word)
    IN  UNION {{Suggestion(Recased(th.word, Searched(words[w], th.config)[k].value),
                           Searched(words[w], th.config)[k].weight) :
                    k \in 1..Len(Searched(words[w], th.config))} :
               w \in 1..Len(words)}

\* C15: suggest_caps_merging returns, for every distinct recased value a
\* variant produced, one suggestion, whose weight is the least weight the
\* value received from any variant; a value is missing only when n_best cut
\* the list.
C15_MergedKeepsLeastWeight ==
    \A t \in DOMAIN threads :
        Suggested(t) /\ Merged(t) =>
            LET r == threads[t].result
                values == {p.value : p \in Produced(t)}
                n_best == threads[t].config.n_best
            IN  /\ \A i \in 1..Len(r) :
                      /\ r[i].value \in values
                      /\ \A p \in Produced(t) : p.value = r[i].value => r[i].weight <= p.weight
                      /\ \E p \in Produced(t) : p = r[i]
                /\ \A i, j \in 1..Len(r) : r[i].value = r[j].value => i = j
                /\ Len(r) = IF IsSome(n_best) /\ n_best.some < Cardinality(values)
                             THEN n_best.some ELSE Cardinality(values)

\* a merged call returned a value under the smaller of two weights it got
C15_Witness ==
    \E t \in DOMAIN threads :
        /\ Suggested(t) /\ Merged(t)
        /\ \E p, q \in Produced(t) :
              /\ p.value = q.value
              /\ p.weight < q.weight
              /\ \E i \in 1..Len(threads[t].result) : threads[t].result[i] = p

\* most variants handed to suggest_caps
MaxVariants == 2

CapsLexicons ==
    {(<<"a", "b">> :> 0),
     (<<"a", "b">> :> 0) @@ (<<"b">> :> 15)}

CapsRefWords == {<<"a", "b">>, <<"A", "b">>, <<"A", "B">>}

CapsVariantWords == {<<"a", "b">>, <<"b">>, <<"c">>}

CapsConfigs == {DefaultConfig, [DefaultConfig EXCEPT !.n_best = Some(1)]}

\* suggest_caps called with any list of variants
CallSuggestCaps(t) ==
    /\ built
    /\ threads[t].pc = "idle"
    /\ \E ref_word \in CapsRefWords, config \in CapsConfigs,
          words \in UNION {[1..k -> CapsVariantWords] : k \in 0..MaxVariants} :
         threads' = [threads EXCEPT ![t] =
            [Idle EXCEPT !.pc = "caps", !.op = "suggest", !.word = ref_word,
                         !.config = config, !.variants = words, !.words = words]]
    /\ UNCHANGED <<mutator, lexicon, alphabet_translator, built, translations, loaded>>

InitCaps == InitSpeller({1}, CapsLexicons)

NextCaps ==
    \/ New
    \/ CallSuggestCaps(1)
    \/ CapsStep(1)
    \/ Return(1)

SpecCaps == InitCaps /\ [][NextCaps]_vars

\* the places of the variants whose search is not empty
Found(t) ==
    {w \in 1..Len(threads[t].variants) :
        Searched(threads[t].variants[w], threads[t].config) # <<>>}

\* C16: suggest_caps searches the variants in order and returns the
\* suggestions of the first one whose search is not empty, without searching
\* the later ones, or the empty list when every search is empty; the values
\* are upper-cased in full when the original word is all-caps, else in
\* their first character when it is first-capital, else left alone; the
\* weights stay.
C16_FirstVariantWithSuggestions ==
    \A t \in DOMAIN threads :
        Suggested(t) =>
            LET th == threads[t]
            IN  IF Found(t) = {}
                THEN th.result = <<>> /\ th.words = <<>>
                ELSE LET first == CHOOSE w \in Found(t) : \A x \in Found(t) : w <= x
                         from == Searched(th.variants[first], th.config)
                     IN  /\ th.words = SubSeq(th.variants, first, Len(th.variants))
                         /\ Len(th.result) = Len(from)
                         /\ \A k \in 1..Len(from) :
                               /\ th.result[k].weight = from[k].weight
                               /\ th.result[k].value =
                                     IF upper_case(th.word) = th.word
                                     THEN upper_case(from[k].value)
                                     ELSE IF upper_first(th.word) = th.word
                                     THEN upper_first(from[k].value)
                                     ELSE from[k].value

\* the first variant gave nothing, the suggestions of the second one came
\* back, and the all-caps word had them upper-cased beyond the first letter
C16_Witness ==
    \E t \in DOMAIN threads :
        /\ Suggested(t)
        /\ Len(threads[t].variants) = 2
        /\ Found(t) = {2}
        /\ threads[t].word = <<"A", "B">>
        /\ \E k \in 1..Len(threads[t].result) :
              threads[t].result[k].value #
                  upper_first(Searched(threads[t].variants[2], threads[t].config)[k].value)

\* ------------------------------------------------------------------------
\* to_input_vec on a speller over any mutator alphabet
\* ------------------------------------------------------------------------

EncodeWords == {<<"a">>, <<"b", "a">>, <<"c">>, <<"a", "c", "b">>}

\* Speller::to_input_vec called on a word
Encode ==
    /\ built
    /\ \E word \in EncodeWords :
         encoded' = [word |-> word, symbols |-> to_input_vec(mutator, word)]
    /\ UNCHANGED <<mutator, lexicon, alphabet_translator, built, translations, threads,
                   mapped, parsed, tables, answer>>

\* a speller about to be constructed over any mutator section
InitEncode ==
    /\ \E keys \in Sections(MaxMutatorKeys) :
         mutator = [alphabet |-> ParseAlphabet(keys)]
    /\ \E keys \in Sections(1) :
         lexicon = [alphabet |-> ParseAlphabet(keys), words |-> EmptyMap]
    /\ alphabet_translator = <<>>
    /\ built = FALSE
    /\ translations = <<>>
    /\ threads = [t \in {} |-> Idle]
    /\ NothingLoaded

NextEncode == New \/ Encode

SpecEncode == InitEncode /\ [][NextEncode]_vars

\* the symbol expected for character ch: the first index of the key
\* equal to it, else UNKNOWN when the mutator declares it, else 0
SymbolOf(ch) ==
    LET key_table == mutator.alphabet.key_table
        at == {x \in 1..Len(key_table) : key_table[x] = <<ch>>}
    IN  IF at # {} THEN (CHOOSE x \in at : \A y \in at : x <= y) - 1
        ELSE IF IsSome(mutator.alphabet.unknown_symbol)
        THEN mutator.alphabet.unknown_symbol.some
        ELSE 0

\* C17 as it stands: to_input_vec gives one symbol for each character, the
\* first index of the key equal to it, else UNKNOWN if declared, else 0; so
\* every symbol is below the length of the mutator key table and is an index
\* into alphabet_translator.
C17_SymbolsBelowKeyTableLength ==
    encoded # None =>
        /\ Len(encoded.symbols) = Len(encoded.word)
        /\ \A i \in 1..Len(encoded.word) :
              /\ encoded.symbols[i] = SymbolOf(encoded.word[i])
              /\ encoded.symbols[i] < Len(mutator.alphabet.key_table)
              /\ encoded.symbols[i] + 1 \in DOMAIN alphabet_translator

\* C17, amended: the same, but a symbol is below the length of the mutator
\* key table only when that table is not empty; over an empty key table
\* every character maps to 0, which is still an index into
\* alphabet_translator, whose length is then 1.
C17_SymbolsIndexTheTranslator ==
    encoded # None =>
        /\ Len(encoded.symbols) = Len(encoded.word)
        /\ \A i \in 1..Len(encoded.word) :
              /\ encoded.symbols[i] = SymbolOf(encoded.word[i])
              /\ mutator.alphabet.key_table # <<>>
                    => encoded.symbols[i] < Len(mutator.alphabet.key_table)
              /\ mutator.alphabet.key_table = <<>>
                    => encoded.symbols[i] = 0 /\ Len(alphabet_translator) = 1
              /\ encoded.symbols[i] + 1 \in DOMAIN alphabet_translator

\* a word with a character that has two keys, mapped to the first, and a
\* character without key, mapped to the UNKNOWN symbol the mutator declares
C17_Witness ==
    /\ encoded # None
    /\ encoded.word = <<"a", "c", "b">>
    /\ mutator.alphabet.key_table = <<UNKNOWN_KEY, <<"b">>, <<"b">>>>
    /\ encoded.symbols = <<0, 0, 1>>

====
